---------------------------- MODULE Spec2Model ----------------------------
(***************************************************************************)
(* Model of the Utah golf tee-time backend (src/server.js and its sibling  *)
(* variant src/unnamed/part_001): the per-booking-system scrapers with     *)
(* their field normalisation, the Redis cache-aside protocol, the          *)
(* search / batch fan-out and the refresh route.                           *)
(*                                                                         *)
(* Nine specifications share the module:                                  *)
(*   Spec         the server: requests, scrapeTeeTimes calls, the cache.   *)
(*   SpecNorm     the scrapers' parsing of one upstream body.              *)
(*   SpecFilter   the search route's slot filter.                          *)
(*   SpecDispatch ScraperFactory.createScraper and the fallback scraper.   *)
(*   SpecValidate the tee-times route's validation and course lookup.      *)
(*   SpecFanOut   the fetches that concurrent search / batch requests and  *)
(*                cron runs have in flight over the whole registry.        *)
(*   SpecSched    the cron warm-up runs.                                   *)
(*   SpecScrape   one scrapeTeeTimes call over a Redis that may fail and a  *)
(*                bookingUrl that may not match.                           *)
(*   SpecRace     a refresh and the resolves of the same key, over a cache *)
(*                that holds an entry stored earlier.                      *)
(***************************************************************************)
EXTENDS Integers, Sequences, FiniteSets, TLC

VARIABLES
    variant,    \* which source file runs: "server" (src/server.js) or "part_001"
    phase,      \* startServer: "boot", "listening", "exit1"
    browser,    \* the module-level `browser` handle is set (TRUE) or undefined
    cache,      \* Redis: key -> entry or NoEntry
    now,        \* wall clock, seconds
    reqs,       \* HTTP requests received, in arrival order
    tasks,      \* scrapeTeeTimes invocations, in call order
    fetchSeq,   \* key -> number of upstream fetches started for it so far
    norm,       \* SpecNorm: one body, its parse and its cached form
    filt,       \* SpecFilter: one search query applied to one slot list
    disp,       \* SpecDispatch: createScraper calls and fallback results
    http,       \* SpecValidate: one tee-times request through its handler
    pool,       \* SpecFanOut: the upstream fetches in flight, per request
    sched,      \* SpecSched: the cron warm-up runs
    scrape      \* SpecScrape: one scrapeTeeTimes call, Redis failing or not

vars == <<variant, phase, browser, cache, now, reqs, tasks, fetchSeq, norm, filt, disp,
          http, pool, sched, scrape>>

serverVars == <<variant, phase, browser, cache, now, reqs, tasks, fetchSeq>>

(***************************************************************************)
(* JavaScript values.  Every value is a record [k, n] so that values of    *)
(* different JavaScript types compare unequal instead of failing.          *)
(*   numstr n : a string holding the digits of n ("45")                    *)
(*   string i : a string holding no digit; string 0 is the empty string    *)
(***************************************************************************)
Undef == [k |-> "undefined", n |-> 0]

Null == [k |-> "null", n |-> 0]

NaN == [k |-> "NaN", n |-> 0]

Num(i) == [k |-> "number", n |-> i]

NumStr(i) == [k |-> "numstr", n |-> i]

Str(i) == [k |-> "string", n |-> i]

Bool(b) == [k |-> "boolean", n |-> IF b THEN 1 ELSE 0]

\* JavaScript truthiness: undefined, null, NaN, 0, "" and false are falsy.
Truthy(v) ==
    CASE v.k = "undefined" -> FALSE
      [] v.k = "null" -> FALSE
      [] v.k = "NaN" -> FALSE
      [] v.k = "number" -> v.n # 0
      [] v.k = "string" -> v.n # 0
      [] v.k = "boolean" -> v.n = 1
      [] OTHER -> TRUE

\* a || b
Or(a, b) == IF Truthy(a) THEN a ELSE b

\* a && b
And(a, b) == IF Truthy(a) THEN b ELSE a

\* parseFloat(v) on whole-number inputs: a number or a digit string parses,
\* anything else (undefined, null, a boolean, a digit-free string) is NaN.
parseFloat(v) ==
    CASE v.k = "number" -> v
      [] v.k = "numstr" -> Num(v.n)
      [] OTHER -> NaN

\* parseInt(v): as parseFloat on whole numbers.
parseInt(v) ==
    CASE v.k = "number" -> v
      [] v.k = "numstr" -> Num(v.n)
      [] OTHER -> NaN

\* text?.match(/(\d+)/) finds a run of digits: the match is truthy exactly
\* when the text is a string holding digits (undefined?.match is undefined).
HasDigits(text) == text.k = "numstr"

\* ToNumber for the relational operators: null is 0, undefined is NaN.
ToNumber(v) ==
    CASE v.k = "number" -> v
      [] v.k = "numstr" -> Num(v.n)
      [] v.k = "null" -> Num(0)
      [] v.k = "boolean" -> Num(v.n)
      [] v.k = "string" -> IF v.n = 0 THEN Num(0) ELSE NaN
      [] OTHER -> NaN

\* a > b : false as soon as either side converts to NaN.
Gt(a, b) ==
    LET x == ToNumber(a)
        y == ToNumber(b)
    IN  x.k = "number" /\ y.k = "number" /\ x.n > y.n

\* a < b
Lt(a, b) == Gt(b, a)

\* JSON.parse(JSON.stringify(v)) on one value: NaN is written as null.
JSONValue(v) == IF v.k = "NaN" THEN Null ELSE v

(***************************************************************************)
(* Tee-time slots and the raw upstream records they are built from.        *)
(***************************************************************************)
SlotFields == {"time", "price", "availableSlots", "holes", "isHotDeal"}

RawFields ==
    {"time", "start_time", "green_fee", "price", "rate.price",
     "available_spots", "max_players", "remaining_spots", "nb_bookable_slots",
     "holes", "nb_holes", "special", "is_special", "is_deal", "special_rate",
     "timeText", "priceText", "slotsText", "hotClass", "hotText"}

\* A raw record with the given fields set and every other field undefined.
Raw(fs) == [f \in RawFields |-> IF f \in DOMAIN fs THEN fs[f] ELSE Undef]

\* JSON.stringify followed by JSON.parse of a slot list, as the cache
\* stores and returns it (lines 174/131 of src/server.js).
JSONRoundTrip(slots) ==
    [i \in 1..Len(slots) |-> [f \in SlotFields |-> JSONValue(slots[i][f])]]


(***************************************************************************)
(* The scrapers' normalisation of one raw record.                          *)
(***************************************************************************)
\* ForeUpScraper: response.data.map(slot => ({...}))
ForeUpSlot(slot) ==
    [time |-> Or(slot["time"], slot["start_time"]),
     price |-> parseFloat(Or(Or(slot["green_fee"], slot["price"]), Num(50))),
     availableSlots |->
        parseInt(Or(Or(slot["available_spots"], slot["max_players"]), Num(4))),
     holes |-> parseInt(Or(slot["holes"], Num(18))),
     isHotDeal |-> Bool(slot["special"] = Bool(TRUE) \/ slot["is_special"] = Bool(TRUE))]

\* ChronogolfScraper of src/server.js
ChronogolfSlotServer(slot) ==
    [time |-> slot["start_time"],
     price |-> parseFloat(Or(slot["green_fee"], Num(50))),
     availableSlots |-> parseInt(Or(slot["nb_bookable_slots"], Num(4))),
     holes |-> parseInt(Or(slot["nb_holes"], Num(18))),
     isHotDeal |-> Or(slot["is_deal"], Bool(FALSE))]

\* ChronogolfScraper of src/unnamed/part_001
ChronogolfSlotPart(slot) ==
    [time |-> Or(slot["start_time"], slot["time"]),
     price |->
        parseFloat(Or(Or(Or(slot["rate.price"], slot["price"]), slot["green_fee"]), Num(50))),
     availableSlots |->
        parseInt(Or(Or(slot["available_spots"], slot["remaining_spots"]), Num(4))),
     holes |-> parseInt(Or(Or(slot["holes"], slot["nb_holes"]), Num(18))),
     isHotDeal |-> Or(Or(slot["is_deal"], slot["special_rate"]), Bool(FALSE))]

\* GolfNowScraper: the object pushed for one matched DOM element.  It has
\* no holes property.
GolfNowSlot(el) ==
    [time |-> el["timeText"],
     price |-> IF HasDigits(el["priceText"]) THEN Num(el["priceText"].n) ELSE Null,
     availableSlots |->
        IF HasDigits(el["slotsText"]) THEN Num(el["slotsText"].n) ELSE Num(4),
     holes |-> Undef,
     isHotDeal |-> Bool(Truthy(el["hotClass"]) \/ Truthy(el["hotText"]))]

\* GolfNowScraper: if (timeText && priceText)
GolfNowKeeps(el) == Truthy(And(el["timeText"], el["priceText"]))

\* .filter(time => time.time)
HasTime(slot) == Truthy(slot["time"])

\* seq.map(F).filter(Keep)
MapFilter(seq, F(_), Keep(_)) ==
    SelectSeq([i \in 1..Len(seq) |-> F(seq[i])], Keep)

KeepAll(slot) == TRUE

(***************************************************************************)
(* One upstream body (axios response.data, or the rendered page) and what  *)
(* each scraper makes of it.  shape:                                       *)
(*   "null"    the body is null            "html"   a string               *)
(*   "object"  a JSON object without tee_times                             *)
(*   "array"   a JSON array of records                                     *)
(*   "wrapped" {tee_times: [records]}      "dom"    the rendered page      *)
(***************************************************************************)
Body(shape, recs) == [shape |-> shape, recs |-> recs]

Returned(slots) == [threw |-> FALSE, val |-> slots]

Threw == [threw |-> TRUE, val |-> <<>>]

\* ForeUpScraper: response.data.map(...).filter(time => time.time); a body
\* without a map method is a TypeError.
ForeUpParse(body) ==
    IF body.shape = "array"
    THEN Returned(MapFilter(body.recs, ForeUpSlot, HasTime))
    ELSE Threw

\* ChronogolfScraper of src/server.js:
\* response.data.tee_times?.map(...) || [] ; only a null body throws.
ChronogolfParseServer(body) ==
    CASE body.shape = "wrapped" -> Returned(MapFilter(body.recs, ChronogolfSlotServer, KeepAll))
      [] body.shape = "null" -> Threw
      [] OTHER -> Returned(<<>>)

\* ChronogolfScraper of src/unnamed/part_001:
\* (response.data.tee_times || response.data).map(...).filter(time => time.time)
ChronogolfParsePart(body) ==
    CASE body.shape \in {"wrapped", "array"} ->
            Returned(MapFilter(body.recs, ChronogolfSlotPart, HasTime))
      [] OTHER -> Threw

\* GolfNowScraper: page.evaluate over the matched elements.
GolfNowSeq(els) ==
    LET kept == SelectSeq(els, GolfNowKeeps)
    IN  [i \in 1..Len(kept) |-> GolfNowSlot(kept[i])]

GolfNowParse(body) ==
    IF body.shape = "dom" THEN Returned(GolfNowSeq(body.recs)) ELSE Threw

\* What the scraper of booking system sys, in source variant v, makes of a body.
ParseBody(v, sys, body) ==
    CASE sys = "foreup" -> ForeUpParse(body)
      [] sys = "golfnow" -> GolfNowParse(body)
      [] sys = "chronogolf" /\ v = "server" -> ChronogolfParseServer(body)
      [] sys = "chronogolf" /\ v = "part_001" -> ChronogolfParsePart(body)

Variants == {"server", "part_001"}

KnownSystems == {"golfnow", "foreup", "chronogolf"}

(***************************************************************************)
(* SpecNorm: one upstream body is parsed by the scraper of its booking     *)
(* system, and the parsed list is written to and read back from the cache. *)
(***************************************************************************)
\* At most this many optional fields are present in one generated record.
MaxSet == 2

\* Longest record list tried in a body.
MaxBatch == 2

\* Values tried for a numeric upstream field: null, 0, "45", "abc".
NumberVals == {Null, Num(0), NumStr(45), Str(1)}

\* Values tried for a flag upstream field.
FlagVals == {Bool(TRUE), Bool(FALSE), Str(1)}

FlagFields == {"special", "is_special", "is_deal", "special_rate", "hotClass", "hotText"}

\* The fields a scraper reads for the time label: <<first, second>>.
TimeFields(sys) ==
    CASE sys = "foreup" -> <<"time", "start_time">>
      [] sys = "chronogolf" -> <<"start_time", "time">>
      [] sys = "golfnow" -> <<"timeText", "timeText">>

\* The other fields the scraper of a booking system reads (either variant).
OptionalFields(sys) ==
    CASE sys = "foreup" ->
            {"green_fee", "price", "available_spots", "max_players", "holes",
             "special", "is_special"}
      [] sys = "chronogolf" ->
            {"green_fee", "price", "rate.price", "available_spots", "remaining_spots",
             "nb_bookable_slots", "holes", "nb_holes", "is_deal", "special_rate"}
      [] sys = "golfnow" -> {"priceText", "slotsText", "hotClass", "hotText"}

ValsOf(f) == IF f \in FlagFields THEN FlagVals ELSE NumberVals

\* Every way of setting at most MaxSet of the optional fields.
OptionalSettings(sys) ==
    UNION { { a \in [S -> NumberVals \cup FlagVals] : \A f \in S : a[f] \in ValsOf(f) } :
            S \in { T \in SUBSET OptionalFields(sys) : Cardinality(T) <= MaxSet } }

\* The time label present under the first name, the second, both or neither.
TimeSettings(sys) ==
    LET tf == TimeFields(sys)
    IN  { [f \in {tf[1], tf[2]} |-> IF f = tf[1] THEN t[1] ELSE t[2]] :
          t \in {Undef, Str(0), Str(7)} \X {Undef, Str(8)} }

RawRecords(sys) ==
    { [f \in RawFields |->
          IF f \in DOMAIN t /\ t[f] # Undef THEN t[f]
          ELSE IF f \in DOMAIN a THEN a[f] ELSE Undef] :
      t \in TimeSettings(sys), a \in OptionalSettings(sys) }

\* The price field every scraper reads first.
PriceField(sys) == IF sys = "golfnow" THEN "priceText" ELSE "green_fee"

\* Records used in the longer lists: the time settings, with and without a price.
SmallRecords(sys) ==
    { r \in RawRecords(sys) :
        \A f \in OptionalFields(sys) :
            r[f] # Undef => f = PriceField(sys) /\ r[f] = NumStr(45) }

SeqsOf(S, lo, hi) == UNION { [1..n -> S] : n \in lo..hi }

\* The shape a well-formed body of the booking system has.
GoodShapes(sys) ==
    CASE sys = "foreup" -> {"array"}
      [] sys = "chronogolf" -> {"wrapped", "array"}
      [] sys = "golfnow" -> {"dom"}

BadShapes(sys) == IF sys = "golfnow" THEN {} ELSE {"null", "html", "object"}

Bodies(sys) ==
    { Body(sh, <<r>>) : sh \in GoodShapes(sys), r \in RawRecords(sys) }
    \cup { Body(sh, rs) : sh \in GoodShapes(sys), rs \in SeqsOf(SmallRecords(sys), 0, MaxBatch) }
    \cup { Body(sh, <<>>) : sh \in BadShapes(sys) }

NoBody == Body("none", <<>>)

NormIdle == [sys |-> "none", body |-> NoBody, out |-> Threw, stored |-> <<>>, stage |-> "idle"]

FiltIdle == [stage |-> "idle"]

DispIdle == <<>>

\* The server's variables while one of the function-level specifications runs.
HttpIdle == [stage |-> "idle"]

PoolIdle == [stage |-> "idle"]

SchedIdle == [stage |-> "idle"]

ScrapeIdle == [stage |-> "idle"]

ServerIdle ==
    /\ http = HttpIdle
    /\ pool = PoolIdle
    /\ sched = SchedIdle
    /\ scrape = ScrapeIdle
    /\ phase = "boot"
    /\ browser = FALSE
    /\ cache = <<>>
    /\ now = 0
    /\ reqs = <<>>
    /\ tasks = <<>>
    /\ fetchSeq = <<>>

NormInit ==
    /\ variant \in Variants
    /\ ServerIdle
    /\ \E sys \in KnownSystems : \E body \in Bodies(sys) :
          norm = [sys |-> sys, body |-> body, out |-> Threw, stored |-> <<>>, stage |-> "raw"]
    /\ filt = FiltIdle
    /\ disp = DispIdle

\* The scraper parses the body (the statements between the fetch and setex).
NormParse ==
    /\ norm.stage = "raw"
    /\ norm' = [norm EXCEPT !.out = ParseBody(variant, norm.sys, norm.body),
                            !.stage = "parsed"]
    /\ UNCHANGED <<serverVars, filt, disp, http, pool, sched, scrape>>

\* redis.setex(key, 900, JSON.stringify(teeTimes)), then a later
\* JSON.parse(cachedData): what the cache entry holds for readers.
NormStore ==
    /\ norm.stage = "parsed"
    /\ ~norm.out.threw
    /\ norm' = [norm EXCEPT !.stored = JSONRoundTrip(norm.out.val), !.stage = "cached"]
    /\ UNCHANGED <<serverVars, filt, disp, http, pool, sched, scrape>>

NormNext == NormParse \/ NormStore

SpecNorm == NormInit /\ [][NormNext]_vars

(***************************************************************************)
(* The upstream fields each scraper consults for one slot field, in the    *)
(* order of its || chain.                                                  *)
(***************************************************************************)
Candidates(v, sys, field) ==
    CASE sys = "foreup" ->
            (CASE field = "time" -> <<"time", "start_time">>
               [] field = "price" -> <<"green_fee", "price">>
               [] field = "availableSlots" -> <<"available_spots", "max_players">>
               [] field = "holes" -> <<"holes">>
               [] field = "isHotDeal" -> <<"special", "is_special">>)
      [] sys = "chronogolf" /\ v = "server" ->
            (CASE field = "time" -> <<"start_time">>
               [] field = "price" -> <<"green_fee">>
               [] field = "availableSlots" -> <<"nb_bookable_slots">>
               [] field = "holes" -> <<"nb_holes">>
               [] field = "isHotDeal" -> <<"is_deal">>)
      [] sys = "chronogolf" /\ v = "part_001" ->
            (CASE field = "time" -> <<"start_time", "time">>
               [] field = "price" -> <<"rate.price", "price", "green_fee">>
               [] field = "availableSlots" -> <<"available_spots", "remaining_spots">>
               [] field = "holes" -> <<"holes", "nb_holes">>
               [] field = "isHotDeal" -> <<"is_deal", "special_rate">>)
      [] sys = "golfnow" ->
            (CASE field = "time" -> <<"timeText">>
               [] field = "price" -> <<"priceText">>
               [] field = "availableSlots" -> <<"slotsText">>
               [] field = "holes" -> <<>>
               [] field = "isHotDeal" -> <<"hotClass", "hotText">>)

Range(seq) == { seq[i] : i \in DOMAIN seq }

\* The record has a usable time label under one of the scraper's names.
TimePresent(v, sys, r) == \E f \in Range(Candidates(v, sys, "time")) : Truthy(r[f])

\* The record holds nothing, or nothing parseable, for the slot field.
Lacks(v, sys, r, field) ==
    \A f \in Range(Candidates(v, sys, field)) : r[f] \in {Undef, Null, Str(1)}

NormParsedOne ==
    /\ norm.stage \in {"parsed", "cached"}
    /\ norm.body.shape \in GoodShapes(norm.sys)
    /\ ~(variant = "server" /\ norm.sys = "chronogolf" /\ norm.body.shape = "array")
    /\ Len(norm.body.recs) = 1

\* C7: a raw record that carries a time but lacks (or holds an unparseable)
\* price, availableSlots, holes or isHotDeal is normalised without an
\* exception into one slot whose price is absent, availableSlots is 4,
\* holes is 18 and isHotDeal is false, whatever the strategy.
C7_DefaultsAsDocumented ==
    (NormParsedOne /\ TimePresent(variant, norm.sys, norm.body.recs[1])) =>
        LET r == norm.body.recs[1]
            L(field) == Lacks(variant, norm.sys, r, field)
        IN  /\ ~norm.out.threw
            /\ Len(norm.out.val) = 1
            /\ L("price") => norm.out.val[1]["price"] \in {Undef, Null}
            /\ L("availableSlots") => norm.out.val[1]["availableSlots"] = Num(4)
            /\ L("holes") => norm.out.val[1]["holes"] = Num(18)
            /\ L("isHotDeal") => norm.out.val[1]["isHotDeal"] = Bool(FALSE)

\* C8: every slot a resolution returns, and every slot a cache entry holds,
\* has a non-empty time (records without one were dropped by the scraper).
C8_EverySlotHasTime ==
    /\ (norm.stage \in {"parsed", "cached"} /\ ~norm.out.threw) =>
          \A i \in 1..Len(norm.out.val) : HasTime(norm.out.val[i])
    /\ norm.stage = "cached" =>
          \A i \in 1..Len(norm.stored) : HasTime(norm.stored[i])

(***************************************************************************)
(* SpecFilter: the search route's parsing of maxPrice / minSlots and its   *)
(* filter over one course's slots.                                         *)
(***************************************************************************)
\* const maxPrice = req.query.maxPrice ? parseFloat(req.query.maxPrice) : null
ParseMaxPrice(q) == IF Truthy(q) THEN parseFloat(q) ELSE Null

\* const minSlots = req.query.minSlots ? parseInt(req.query.minSlots) : 1
ParseMinSlots(q) == IF Truthy(q) THEN parseInt(q) ELSE Num(1)

\* The callback of teeTimes.filter(...)
FilterKeeps(slot, maxPrice, minSlots) ==
    IF Truthy(maxPrice) /\ Gt(slot["price"], maxPrice) THEN FALSE
    ELSE IF Lt(slot["availableSlots"], minSlots) THEN FALSE
    ELSE TRUE

FilterSlots(slots, maxPrice, minSlots) ==
    LET keep(s) == FilterKeeps(s, maxPrice, minSlots)
    IN  SelectSeq(slots, keep)

Slot(t, p, a) ==
    [time |-> t, price |-> p, availableSlots |-> a, holes |-> Num(18), isHotDeal |-> Bool(FALSE)]

\* The two slots of the documented example (and of GenericScraper's sample).
SampleSlots == <<Slot(Str(700), Num(45), Num(4)), Slot(Str(730), Num(45), Num(2))>>

\* Slots tried by SpecFilter.
FilterInputSlots ==
    { Slot(Str(700), p, a) : p \in {Null, Num(0), Num(45)}, a \in {Num(0), Num(2), Num(4)} }
    \cup Range(SampleSlots)

\* Query strings tried: absent, or a digit string.
MaxPriceQueries == {Undef, NumStr(0), NumStr(40), NumStr(50)}

MinSlotsQueries == {Undef, NumStr(1), NumStr(3)}

FiltInit ==
    /\ variant = "server"
    /\ ServerIdle
    /\ norm = NormIdle
    /\ disp = DispIdle
    /\ \E slots \in SeqsOf(FilterInputSlots, 0, MaxBatch) :
       \E mp \in MaxPriceQueries : \E ms \in MinSlotsQueries :
          filt = [stage |-> "query", slots |-> slots, maxPriceQ |-> mp, minSlotsQ |-> ms,
                  out |-> <<>>]

FiltApply ==
    /\ filt.stage = "query"
    /\ filt' = [filt EXCEPT
                  !.out = FilterSlots(filt.slots, ParseMaxPrice(filt.maxPriceQ),
                                      ParseMinSlots(filt.minSlotsQ)),
                  !.stage = "done"]
    /\ UNCHANGED <<serverVars, norm, disp, http, pool, sched, scrape>>

FiltNext == FiltApply

SpecFilter == FiltInit /\ [][FiltNext]_vars

\* a <= b on numbers (null counts as 0, as in JavaScript).
Leq(a, b) ==
    LET x == ToNumber(a)
        y == ToNumber(b)
    IN  x.k = "number" /\ y.k = "number" /\ x.n <= y.n

\* The documented rule: (maxPrice absent OR price <= maxPrice) AND
\* availableSlots >= minSlots, minSlots defaulting to 1.
DocumentedKeep(slot, maxPriceQ, minSlotsQ) ==
    /\ maxPriceQ = Undef \/ Leq(slot["price"], Num(maxPriceQ.n))
    /\ Leq(IF minSlotsQ = Undef THEN Num(1) ELSE Num(minSlotsQ.n), slot["availableSlots"])

\* C3: search keeps a slot iff (maxPrice absent OR price <= maxPrice) AND
\* availableSlots >= minSlots (default 1), for every slot and filter value,
\* a null price and a supplied maxPrice of 0 included.
C3_FilterRule ==
    filt.stage = "done" =>
        LET keep(s) == DocumentedKeep(s, filt.maxPriceQ, filt.minSlotsQ)
        IN  filt.out = SelectSeq(filt.slots, keep)

(***************************************************************************)
(* SpecDispatch: ScraperFactory.createScraper on arbitrary bookingSystem   *)
(* tags, and GenericScraper.scrapeTeeTimes on the scraper it returns.      *)
(***************************************************************************)
\* Longest sequence of dispatches tried.
MaxCalls == 2

\* bookingSystem values tried: the three known tags, an unknown tag, a known
\* tag in the wrong case, the empty string and a missing property.
Tags == {"golfnow", "foreup", "chronogolf", "teesnap", "GolfNow", "", "undefined"}

Dates == {"today", "tomorrow"}

\* A switch without its default branch: the factory returns undefined.
createScraperNoDefault(bookingSystem) ==
    CASE bookingSystem = "golfnow" -> "GolfNowScraper"
      [] bookingSystem = "foreup" -> "ForeUpScraper"
      [] bookingSystem = "chronogolf" -> "ChronogolfScraper"
      [] OTHER -> "undefined"

\* ScraperFactory.createScraper: the class of the scraper returned.
createScraper(bookingSystem) ==
    CASE bookingSystem = "golfnow" -> "GolfNowScraper"
      [] bookingSystem = "foreup" -> "ForeUpScraper"
      [] bookingSystem = "chronogolf" -> "ChronogolfScraper"
      [] OTHER -> "GenericScraper"

\* GenericScraper.scrapeTeeTimes: sample data in src/server.js, nothing in
\* src/unnamed/part_001; the course and the date are not consulted.
GenericScrape(v, courseId, date) ==
    IF v = "server" THEN Returned(SampleSlots) ELSE Returned(<<>>)

\* scraper.scrapeTeeTimes(course, date) on what the factory returned, for
\* the classes that need neither the cache nor an upstream.
ScrapeWith(scraper, v, courseId, date) ==
    IF scraper = "GenericScraper" THEN GenericScrape(v, courseId, date) ELSE Threw

\* A course of the given tag, and the cache keys of such courses.
DispCourse(tag) == [id |-> tag, bookingSystem |-> tag, urlOk |-> TRUE]

DispKey(tag, date) == <<tag, tag, date>>

DispKeys == { DispKey(tag, date) : tag \in Tags, date \in Dates }

\* The server has started with an empty cache.
DispInit ==
    /\ variant \in Variants
    /\ phase = "boot"
    /\ browser = FALSE
    /\ cache = [k \in DispKeys |-> [set |-> FALSE, val |-> <<>>, at |-> 0, exp |-> 0, fid |-> 0]]
    /\ now = 0
    /\ reqs = <<>>
    /\ tasks = <<>>
    /\ fetchSeq = <<>>
    /\ norm = NormIdle
    /\ filt = FiltIdle
    /\ disp = <<>>
    /\ http = HttpIdle
    /\ pool = PoolIdle
    /\ sched = SchedIdle
    /\ scrape = ScrapeIdle

\* const scraper = await ScraperFactory.createScraper(course.bookingSystem)
DispCreate ==
    /\ Len(disp) < MaxCalls
    /\ \A i \in 1..Len(disp) : disp[i].done
    /\ \E tag \in Tags : \E date \in Dates :
          disp' = Append(disp, [tag |-> tag, date |-> date, scraper |-> createScraper(tag),
                                done |-> FALSE, out |-> Threw])
    /\ UNCHANGED <<serverVars, norm, filt, http, pool, sched, scrape>>

\* const teeTimes = await scraper.scrapeTeeTimes(course, date), for a course
\* that was not handed one of the three caching scrapers.
DispScrape ==
    /\ Len(disp) > 0
    /\ ~disp[Len(disp)].done
    /\ disp[Len(disp)].scraper \notin {"GolfNowScraper", "ForeUpScraper", "ChronogolfScraper"}
    /\ disp' = [disp EXCEPT ![Len(disp)].done = TRUE,
                            ![Len(disp)].out =
                                ScrapeWith(disp[Len(disp)].scraper, variant,
                                           disp[Len(disp)].tag, disp[Len(disp)].date)]
    /\ UNCHANGED <<serverVars, norm, filt, http, pool, sched, scrape>>

\* A known tag's scraper is exercised by Spec; here the call is only recorded.
DispSkip ==
    /\ Len(disp) > 0
    /\ ~disp[Len(disp)].done
    /\ disp[Len(disp)].scraper \in {"GolfNowScraper", "ForeUpScraper", "ChronogolfScraper"}
    /\ disp' = [disp EXCEPT ![Len(disp)].done = TRUE, ![Len(disp)].out = Returned(<<>>)]
    /\ UNCHANGED <<serverVars, norm, filt, http, pool, sched, scrape>>

DispNext == DispCreate \/ DispScrape \/ DispSkip

SpecDispatch == DispInit /\ [][DispNext]_vars

UnknownTag(tag) == tag \notin KnownSystems

\* C9: a bookingSystem tag that is none of the known tags is always handed
\* GenericScraper, whose scrapeTeeTimes returns without an exception, and
\* any two such calls of one server return the same slot list.
C9_UnknownTagFallsBack ==
    \A i \in 1..Len(disp) :
        UnknownTag(disp[i].tag) =>
            /\ disp[i].scraper = "GenericScraper"
            /\ disp[i].done =>
                  /\ ~disp[i].out.threw
                  /\ disp[i].out.val = (IF variant = "server" THEN SampleSlots ELSE <<>>)
                  /\ \A j \in 1..Len(disp) :
                        (UnknownTag(disp[j].tag) /\ disp[j].done) => disp[j].out = disp[i].out

\* Two completed dispatches of different unknown tags on different dates.
C9_Witness ==
    /\ Len(disp) = 2
    /\ disp[1].done /\ disp[2].done
    /\ UnknownTag(disp[1].tag) /\ UnknownTag(disp[2].tag)
    /\ disp[1].tag # disp[2].tag
    /\ disp[1].date # disp[2].date
    /\ variant = "server"

\* C12, for a tag served by the fallback scraper: once its call has
\* returned, the cache holds what it returned under tag:courseId:date, with
\* a TTL of 900 s.
C12_MissStoresResult ==
    \A i \in 1..Len(disp) :
        (UnknownTag(disp[i].tag) /\ disp[i].done /\ ~disp[i].out.threw) =>
            LET entry == cache[DispKey(disp[i].tag, disp[i].date)]
            IN  /\ entry.set
                /\ entry.val = JSONRoundTrip(disp[i].out.val)
                /\ entry.exp = entry.at + 900

(***************************************************************************)
(* Spec: the server.  Redis commands of the single client connection take  *)
(* effect in the order they are sent, so a command acts on `cache` in the  *)
(* step that sends it; the code after its `await` runs in a later step.    *)
(***************************************************************************)
\* Requests received in one behaviour, and scrapeTeeTimes calls they make.
MaxReqs == 2

MaxTasks == 4

\* Clock ticks in one behaviour, and the seconds one tick advances the clock.
MaxTicks == 2

TickSeconds == 450

\* redis.setex(cacheKey, 900, ...)
TTL == 900

\* UTAH_COURSES, one course per booking system: bonneville, river-oaks and
\* meadowbrook (mountain-dell-canyon and thanksgiving-point repeat the first
\* two systems).  urlOk: bookingUrl matches the scraper's pattern.
UTAH_COURSES ==
    << [id |-> "bonneville", bookingSystem |-> "foreup", urlOk |-> TRUE],
       [id |-> "river-oaks", bookingSystem |-> "golfnow", urlOk |-> TRUE],
       [id |-> "meadowbrook", bookingSystem |-> "chronogolf", urlOk |-> TRUE] >>

CourseIds == { UTAH_COURSES[i].id : i \in DOMAIN UTAH_COURSES }

\* UTAH_COURSES.find(c => c.id === courseId): its index, 0 when not found.
FindCourse(courseId) ==
    IF courseId \in CourseIds
    THEN CHOOSE i \in DOMAIN UTAH_COURSES : UTAH_COURSES[i].id = courseId
    ELSE 0

\* `${bookingSystem}:${course.id}:${date}`
CacheKey(course, date) == <<course.bookingSystem, course.id, date>>

Keys == { CacheKey(UTAH_COURSES[i], d) : i \in DOMAIN UTAH_COURSES, d \in Dates }

NoEntry == [set |-> FALSE, val |-> <<>>, at |-> 0, exp |-> 0, fid |-> 0]

\* A get that returns a stored string however old it is.
RedisGetNoExpiry(c, key, t) == c[key]

\* redis.get(key): the stored string, or null once the TTL has run out.
\* at (when it was written) and fid (which fetch produced the value) are
\* bookkeeping, not Redis data.
RedisGet(c, key, t) == IF c[key].set /\ t < c[key].exp THEN c[key] ELSE NoEntry

\* redis.setex(key, ttl, JSON.stringify(teeTimes))
RedisSetex(c, key, ttl, slots, t, fid) ==
    [c EXCEPT ![key] = [set |-> TRUE, val |-> JSONRoundTrip(slots), at |-> t,
                       exp |-> t + ttl, fid |-> fid]]

\* A delete that leaves the entry in place.
RedisDelKeeps(c, key) == c

\* redis.del(key)
RedisDel(c, key) == [c EXCEPT ![key] = NoEntry]

\* A test that takes a stored "[]" for a miss.
IsHitNonEmpty(cachedData) == cachedData.set /\ cachedData.val # <<>>

\* if (cachedData): any stored string, "[]" included, is truthy.
IsHit(cachedData) == cachedData.set

\* A catch block that logs and throws the error again.
Rethrow == Threw

\* The catch block of scrapeTeeTimes: log and return [].
Catch == Returned(<<>>)

(***************************************************************************)
(* Upstream outcomes of one fetch.                                         *)
(*   "error"  transport error or timeout: axios.get / page.goto rejects    *)
(*   "html"   status 200 with a body that is not the expected JSON         *)
(*   "empty"  a well-formed body with no records                           *)
(*   "list"   a well-formed body with three records: a complete one, one   *)
(*            without a time, one with an unparseable price                *)
(***************************************************************************)
Outcomes(sys) == IF sys = "golfnow" THEN {"error", "empty", "list"}
                 ELSE {"error", "html", "empty", "list"}

ListRecords(sys) ==
    IF sys = "golfnow"
    THEN << Raw([timeText |-> Str(700), priceText |-> NumStr(45), slotsText |-> NumStr(4)]),
            Raw([priceText |-> NumStr(45)]),
            Raw([timeText |-> Str(730), priceText |-> Str(1), slotsText |-> NumStr(2)]) >>
    ELSE << Raw([start_time |-> Str(700), green_fee |-> NumStr(45),
                 available_spots |-> Num(4), nb_bookable_slots |-> Num(4)]),
            Raw([green_fee |-> NumStr(45)]),
            Raw([start_time |-> Str(730), green_fee |-> Str(1),
                 available_spots |-> Num(2), nb_bookable_slots |-> Num(2)]) >>

\* The outcomes in which the fetch or the parse of its body has failed.
Failure(outcome) == outcome \in {"error", "html"}

GoodShape(sys) ==
    CASE sys = "foreup" -> "array"
      [] sys = "chronogolf" -> "wrapped"
      [] sys = "golfnow" -> "dom"

OutcomeBody(sys, outcome) ==
    CASE outcome = "html" -> Body("html", <<>>)
      [] outcome = "empty" -> Body(GoodShape(sys), <<>>)
      [] outcome = "list" -> Body(GoodShape(sys), ListRecords(sys))

(***************************************************************************)
(* Requests and scrapeTeeTimes calls.                                      *)
(***************************************************************************)
NoRead == NoEntry

\* A scrapeTeeTimes call that has not been made yet (pc "wait").
NewTask(r, ci, date) ==
    [req |-> r, course |-> ci, date |-> date, pc |-> "wait",
     read |-> NoRead, live |-> FALSE, expired |-> FALSE, seen |-> {},
     out |-> Returned(<<>>), hit |-> FALSE, fetched |-> FALSE, fid |-> 0,
     wrote |-> FALSE, failed |-> FALSE, overtook |-> FALSE, page |-> "none"]

\* The calls for the same course and date that have returned.
ReturnedCalls(ci, date) ==
    { i \in DOMAIN tasks :
        tasks[i].pc = "done" /\ tasks[i].course = ci /\ tasks[i].date = date }

\* scraper.scrapeTeeTimes(course, date) is called: GenericScraper returns at
\* once; the others send redis.get(cacheKey).  live records whether the
\* key held an unexpired entry at the call, expired whether it held one
\* whose TTL had run out, seen which calls for the same course and date had
\* returned by then.
CallTask(t, c, clock) ==
    LET course == UTAH_COURSES[t.course]
        key == CacheKey(course, t.date)
    IN  IF createScraper(course.bookingSystem) = "GenericScraper"
        THEN [t EXCEPT !.pc = "done",
                       !.out = GenericScrape(variant, course.id, t.date)]
        ELSE [t EXCEPT !.pc = "got",
                       !.read = RedisGet(c, key, clock),
                       !.live = (c[key].set /\ clock < c[key].exp),
                       !.expired = (c[key].set /\ clock >= c[key].exp),
                       !.seen = ReturnedCalls(t.course, t.date)]

TasksOf(r) == { i \in DOMAIN tasks : tasks[i].req = r }

\* since: how many fetches of the request's key had started on its arrival.
NewReq(kind, courseId, date, mp, ms, ids) ==
    [kind |-> kind, courseId |-> courseId, date |-> date, maxPriceQ |-> mp,
     minSlotsQ |-> ms, ids |-> ids,
     since |-> IF FindCourse(courseId) = 0 THEN 0
               ELSE fetchSeq[CacheKey(UTAH_COURSES[FindCourse(courseId)], date)]]

\* The server accepts a request that makes n scrapeTeeTimes calls.
Listening(n) ==
    /\ phase = "listening"
    /\ Len(reqs) < MaxReqs
    /\ Len(tasks) + n <= MaxTasks

\* The dates a request may name.  Dates are interchangeable, so the first
\* request of a behaviour names "today".
RequestDates == IF reqs = <<>> THEN {"today"} ELSE Dates

\* A handler that awaits each course's call before it makes the next one.
FanOutSequential(r, cis, date, c, clock) ==
    [k \in 1..Len(cis) |->
        IF k = 1 THEN CallTask(NewTask(r, cis[k], date), c, clock)
        ELSE NewTask(r, cis[k], date)]

\* Promise.all / Promise.allSettled over courses.map(async ...): every
\* callback runs at once up to its first pending await, so every
\* scrapeTeeTimes call is made (and its redis.get sent) on arrival.
FanOut(r, cis, date, c, clock) ==
    [k \in 1..Len(cis) |-> CallTask(NewTask(r, cis[k], date), c, clock)]

Init ==
    /\ variant \in Variants
    /\ phase = "boot"
    /\ browser = FALSE
    /\ cache = [k \in Keys |-> NoEntry]
    /\ now = 0
    /\ reqs = <<>>
    /\ tasks = <<>>
    /\ fetchSeq = [k \in Keys |-> 0]
    /\ norm = NormIdle
    /\ filt = FiltIdle
    /\ disp = DispIdle
    /\ http = HttpIdle
    /\ pool = PoolIdle
    /\ sched = SchedIdle
    /\ scrape = ScrapeIdle

\* startServer: redis.connect() may reject (exit 1); initBrowser catches its
\* own launch error and leaves `browser` undefined.
StartServer ==
    /\ phase = "boot"
    /\ \E redisOk \in BOOLEAN : \E browserOk \in BOOLEAN :
          IF redisOk
          THEN phase' = "listening" /\ browser' = browserOk
          ELSE phase' = "exit1" /\ browser' = browser
    /\ UNCHANGED <<variant, cache, now, reqs, tasks, fetchSeq, norm, filt, disp, http, pool, sched, scrape>>

\* Time passes; the clock reads 0 when the first request arrives.  One tick
\* is far longer than a call can last (axios timeout 10 s, page.goto timeout
\* 30 s), so the clock is advanced between calls, not during one; it stops
\* once the last request of the behaviour has made its last call.
Tick ==
    /\ phase = "listening"
    /\ reqs # <<>>
    /\ \A i \in DOMAIN tasks : tasks[i].pc \in {"wait", "done"}
    /\ Len(reqs) < MaxReqs \/ \E i \in DOMAIN tasks : tasks[i].pc = "wait"
    /\ now < MaxTicks * TickSeconds
    /\ now' = now + TickSeconds
    /\ UNCHANGED <<variant, phase, browser, cache, reqs, tasks, fetchSeq, norm, filt, disp, http, pool, sched, scrape>>

\* GET /api/tee-times/:courseId (server.js), GET /api/courses/:courseId/teetimes
\* (part_001): 404 for an unknown id, otherwise one scrapeTeeTimes call.
GetTeeTimes ==
    /\ Listening(1)
    /\ \E courseId \in CourseIds \cup {"nowhere"} : \E date \in RequestDates :
          LET ci == FindCourse(courseId)
              r == Len(reqs) + 1
          IN  /\ reqs' = Append(reqs, NewReq("teetimes", courseId, date, Undef, Undef, <<>>))
              /\ tasks' = IF ci = 0 THEN tasks
                          ELSE tasks \o FanOut(r, <<ci>>, date, cache, now)
    /\ UNCHANGED <<variant, phase, browser, cache, now, fetchSeq, norm, filt, disp, http, pool, sched, scrape>>

\* Filter queries tried by Search.
SearchQueries == { <<Undef, NumStr(3)>>, <<NumStr(40), NumStr(3)>> }

\* GET /api/search/tee-times (server.js): one call per course of UTAH_COURSES.
Search ==
    /\ Listening(Len(UTAH_COURSES))
    /\ variant = "server"
    /\ \E date \in RequestDates : \E q \in SearchQueries :
          LET r == Len(reqs) + 1
              all == [k \in 1..Len(UTAH_COURSES) |-> k]
          IN  /\ reqs' = Append(reqs, NewReq("search", "", date, q[1], q[2], <<>>))
              /\ tasks' = tasks \o FanOut(r, all, date, cache, now)
    /\ UNCHANGED <<variant, phase, browser, cache, now, fetchSeq, norm, filt, disp, http, pool, sched, scrape>>

\* courseIds bodies tried by Batch.
BatchIds ==
    { <<"bonneville", "meadowbrook">>, <<"river-oaks", "nowhere">>,
      <<"bonneville", "bonneville">> }

\* The requested ids that UTAH_COURSES.find resolves, as course indexes.
KnownOf(ids) ==
    LET known == SelectSeq(ids, LAMBDA x : FindCourse(x) # 0)
    IN  [k \in 1..Len(known) |-> FindCourse(known[k])]

\* POST /api/courses/batch-teetimes (part_001): one call per known id; the
\* callback of an unknown id returns null.
Batch ==
    /\ Listening(MaxBatch)
    /\ variant = "part_001"
    /\ \E ids \in BatchIds : \E date \in RequestDates :
          LET r == Len(reqs) + 1
          IN  /\ reqs' = Append(reqs, NewReq("batch", "", date, Undef, Undef, ids))
              /\ tasks' = tasks \o FanOut(r, KnownOf(ids), date, cache, now)
    /\ UNCHANGED <<variant, phase, browser, cache, now, fetchSeq, norm, filt, disp, http, pool, sched, scrape>>

\* POST /api/refresh/:courseId (server.js): 404 for an unknown id; otherwise
\* redis.del(cacheKey) is sent, and scrapeTeeTimes is called once its reply
\* has arrived (action Call).
Refresh ==
    /\ Listening(1)
    /\ variant = "server"
    /\ \E courseId \in CourseIds \cup {"nowhere"} : \E date \in RequestDates :
          LET ci == FindCourse(courseId)
              r == Len(reqs) + 1
          IN  /\ reqs' = Append(reqs, NewReq("refresh", courseId, date, Undef, Undef, <<>>))
              /\ IF ci = 0
                 THEN UNCHANGED <<tasks, cache>>
                 ELSE /\ cache' = RedisDel(cache, CacheKey(UTAH_COURSES[ci], date))
                      /\ tasks' = Append(tasks, NewTask(r, ci, date))
    /\ UNCHANGED <<variant, phase, browser, now, fetchSeq, norm, filt, disp, http, pool, sched, scrape>>

\* The call i of a search returns while a call that the search made before
\* it has not.
Overtakes(i) ==
    /\ reqs[tasks[i].req].kind = "search"
    /\ \E j \in TasksOf(tasks[i].req) : j < i /\ tasks[j].pc # "done"

\* A scrapeTeeTimes call that follows an await of its handler: its turn has
\* come when every earlier call of the same request has returned.
Call(i) ==
    /\ tasks[i].pc = "wait"
    /\ \A j \in TasksOf(tasks[i].req) : j < i => tasks[j].pc = "done"
    /\ tasks' = [tasks EXCEPT ![i] = CallTask(tasks[i], cache, now)]
    /\ UNCHANGED <<variant, phase, browser, cache, now, reqs, fetchSeq, norm, filt, disp, http, pool, sched, scrape>>

\* The reply of redis.get has arrived: a hit returns JSON.parse(cachedData);
\* GolfNowScraper opens its page with browser.newPage() before the fetch;
\* on a miss GolfNowScraper without a browser, and a direct-API scraper whose
\* bookingUrl does not match, return []; otherwise the upstream fetch starts.
Continue(i) ==
    /\ tasks[i].pc = "got"
    /\ LET t == tasks[i]
           course == UTAH_COURSES[t.course]
           sys == course.bookingSystem
       IN  IF IsHit(t.read)
           THEN /\ tasks' = [tasks EXCEPT ![i] =
                       [t EXCEPT !.pc = "done", !.hit = TRUE, !.overtook = Overtakes(i),
                                 !.fid = t.read.fid, !.out = Returned(t.read.val)]]
                /\ UNCHANGED fetchSeq
           ELSE IF (sys = "golfnow" /\ ~browser) \/ (sys # "golfnow" /\ ~course.urlOk)
           THEN /\ tasks' = [tasks EXCEPT ![i] =
                       [t EXCEPT !.pc = "done", !.overtook = Overtakes(i),
                                 !.out = Returned(<<>>)]]
                /\ UNCHANGED fetchSeq
           ELSE /\ tasks' = [tasks EXCEPT ![i] =
                       [t EXCEPT !.pc = "fetch", !.fetched = TRUE,
                                 !.page = IF sys = "golfnow" THEN "open" ELSE "none",
                                 !.fid = fetchSeq[CacheKey(course, t.date)] + 1]]
                /\ fetchSeq' = [fetchSeq EXCEPT ![CacheKey(course, t.date)] = @ + 1]
    /\ UNCHANGED <<variant, phase, browser, cache, now, reqs, norm, filt, disp, http, pool, sched, scrape>>

\* The upstream fetch ends.  A rejection, or an exception while parsing,
\* lands in the catch block; otherwise the parsed list is written with
\* setex and returned.  GolfNowScraper calls page.close() after
\* page.evaluate and before setex; its catch block does not.
FetchDone(i) ==
    /\ tasks[i].pc = "fetch"
    /\ LET t == tasks[i]
           course == UTAH_COURSES[t.course]
           sys == course.bookingSystem
       IN  \E o \in Outcomes(sys) :
              LET parsed == IF o = "error" THEN Threw
                            ELSE ParseBody(variant, sys, OutcomeBody(sys, o))
              IN  IF parsed.threw
                  THEN /\ tasks' = [tasks EXCEPT ![i] =
                              [t EXCEPT !.pc = "done", !.failed = Failure(o),
                                        !.overtook = Overtakes(i),
                                        !.out = Catch]]
                       /\ UNCHANGED cache
                  ELSE /\ tasks' = [tasks EXCEPT ![i] =
                              [t EXCEPT !.pc = "done", !.failed = Failure(o),
                                        !.overtook = Overtakes(i),
                                        !.page = IF sys = "golfnow" THEN "closed" ELSE "none",
                                        !.wrote = TRUE, !.out = parsed]]
                       /\ cache' = RedisSetex(cache, CacheKey(course, t.date), TTL,
                                              parsed.val, now, t.fid)
    /\ UNCHANGED <<variant, phase, browser, now, reqs, fetchSeq, norm, filt, disp, http, pool, sched, scrape>>

Next ==
    \/ StartServer
    \/ Tick
    \/ GetTeeTimes
    \/ Search
    \/ Batch
    \/ Refresh
    \/ \E i \in DOMAIN tasks : Call(i)
    \/ \E i \in DOMAIN tasks : Continue(i)
    \/ \E i \in DOMAIN tasks : FetchDone(i)

Spec == Init /\ [][Next]_vars

(***************************************************************************)
(* Responses.                                                              *)
(***************************************************************************)
\* The scrapeTeeTimes calls of request r, in the order they were created.
TaskSeq(r) == SelectSeq([i \in 1..Len(tasks) |-> i], LAMBDA i : tasks[i].req = r)

\* The handler of request r has every result it awaits.
RequestDone(r) ==
    IF reqs[r].kind \in {"teetimes", "refresh"} /\ FindCourse(reqs[r].courseId) = 0
    THEN TRUE
    ELSE /\ reqs[r].kind \in {"teetimes", "refresh"} => TasksOf(r) # {}
         /\ \A i \in TasksOf(r) : tasks[i].pc = "done"

NoValue == [null |-> TRUE, course |-> 0, teeTimes |-> <<>>]

\* How the promise of one callback settles: it rejects when scrapeTeeTimes
\* throws, otherwise it fulfils with the callback's return value.
Settle(out, value) ==
    IF out.threw THEN [status |-> "rejected", value |-> NoValue]
    ELSE [status |-> "fulfilled", value |-> value]

\* The callback of search for the call i: { course, teeTimes: filtered }.
SearchCallback(r, i) ==
    Settle(tasks[i].out,
           [null |-> FALSE, course |-> tasks[i].course,
            teeTimes |-> FilterSlots(tasks[i].out.val,
                                     ParseMaxPrice(reqs[r].maxPriceQ),
                                     ParseMinSlots(reqs[r].minSlotsQ))])

\* A search that returns every course, matching tee times or not.
SearchKeepsAll(result) == TRUE

\* allResults.filter(result => result.teeTimes.length > 0)
SearchKeeps(result) == Len(result.value.teeTimes) > 0

Reverse(seq) == [k \in 1..Len(seq) |-> seq[Len(seq) + 1 - k]]

\* A search that lists the surviving courses last to first.
SearchResponseReversed(r) ==
    LET ts == TaskSeq(r)
        allResults == [k \in 1..Len(ts) |-> SearchCallback(r, ts[k])]
    IN  IF \E k \in 1..Len(ts) : allResults[k].status = "rejected"
        THEN [status |-> 500, results |-> <<>>]
        ELSE [status |-> 200, results |-> Reverse(SelectSeq(allResults, SearchKeeps))]

\* The response of search: Promise.all rejects as soon as one callback does,
\* and the handler's catch answers 500.
SearchResponse(r) ==
    LET ts == TaskSeq(r)
        allResults == [k \in 1..Len(ts) |-> SearchCallback(r, ts[k])]
    IN  IF \E k \in 1..Len(ts) : allResults[k].status = "rejected"
        THEN [status |-> 500, results |-> <<>>]
        ELSE [status |-> 200, results |-> SelectSeq(allResults, SearchKeeps)]

\* The call that the callback of the p-th requested id has made: known ids
\* make the calls of the request in order.
BatchTask(r, p) ==
    LET ids == reqs[r].ids
        rank == Cardinality({ q \in 1..p : FindCourse(ids[q]) # 0 })
    IN  TaskSeq(r)[rank]

\* The callback of batch for the p-th requested id: null for an unknown id,
\* otherwise { courseId, courseName, teeTimes, count }.
BatchCallback(r, p) ==
    IF FindCourse(reqs[r].ids[p]) = 0
    THEN [status |-> "fulfilled", value |-> NoValue]
    ELSE LET t == tasks[BatchTask(r, p)]
         IN  Settle(t.out, [null |-> FALSE, course |-> t.course, teeTimes |-> t.out.val])

\* A batch that also leaves out the courses without tee times.
BatchKeepsNonEmpty(result) ==
    result.status = "fulfilled" /\ ~result.value.null /\ result.value.teeTimes # <<>>

\* results.filter(result => result.status === 'fulfilled' && result.value)
BatchKeeps(result) == result.status = "fulfilled" /\ ~result.value.null

\* The response of batch: Promise.allSettled never rejects.
BatchResponse(r) ==
    LET results == [p \in 1..Len(reqs[r].ids) |-> BatchCallback(r, p)]
    IN  [status |-> 200, results |-> SelectSeq(results, BatchKeeps)]

\* The courses that a response has an entry for, and the entry of one.
CoursesIn(resp) == { resp.results[k].value.course : k \in DOMAIN resp.results }

EntriesOf(resp, ci) ==
    { resp.results[k].value.teeTimes :
        k \in { x \in DOMAIN resp.results : resp.results[x].value.course = ci } }

\* The filter of request r applied to what call i returned.
Filtered(r, i) ==
    FilterSlots(tasks[i].out.val, ParseMaxPrice(reqs[r].maxPriceQ),
                ParseMinSlots(reqs[r].minSlotsQ))

DoneOf(kind) == { r \in DOMAIN reqs : reqs[r].kind = kind /\ RequestDone(r) }

\* C4: a finished search has an entry for a course exactly when the course's
\* filtered tee times are not empty; a finished batch has one entry for
\* every requested id that names a course, with the tee times its call
\* returned, empty or not.
C4_SearchOmitsBatchRetains ==
    /\ \A r \in DoneOf("search") : \A i \in TasksOf(r) :
          /\ SearchResponse(r).status = 200
          /\ tasks[i].course \in CoursesIn(SearchResponse(r)) <=> Filtered(r, i) # <<>>
    /\ \A r \in DoneOf("batch") :
          /\ Len(BatchResponse(r).results) = Len(KnownOf(reqs[r].ids))
          /\ \A i \in TasksOf(r) : tasks[i].out.val \in EntriesOf(BatchResponse(r), tasks[i].course)

\* A finished search that omits one course and returns another.
C4_Witness ==
    \E r \in DoneOf("search") : \E i, j \in TasksOf(r) :
        /\ Filtered(r, i) = <<>> /\ tasks[i].course \notin CoursesIn(SearchResponse(r))
        /\ Filtered(r, j) # <<>> /\ tasks[j].course \in CoursesIn(SearchResponse(r))

\* A finished batch with an entry that has no tee times.
C4_WitnessBatch ==
    \E r \in DoneOf("batch") : \E i \in TasksOf(r) :
        /\ tasks[i].out.val = <<>>
        /\ <<>> \in EntriesOf(BatchResponse(r), tasks[i].course)

(***************************************************************************)
(* Failure isolation and concurrency of search and batch.                  *)
(***************************************************************************)
System(i) == UTAH_COURSES[tasks[i].course].bookingSystem

\* The call i has returned after its fetch or parse failed, or after it
\* found no browser to render the page with.
Failing(i) ==
    /\ tasks[i].pc = "done"
    /\ \/ tasks[i].failed
       \/ System(i) = "golfnow" /\ ~browser /\ ~tasks[i].hit

\* What a call returns when nothing has failed: a cached value, or the
\* parse of a well-formed body.
Unaffected(i) ==
    IF tasks[i].hit THEN tasks[i].out.val = tasks[i].read.val
    ELSE \E o \in { x \in Outcomes(System(i)) : ~Failure(x) } :
            tasks[i].out = ParseBody(variant, System(i), OutcomeBody(System(i), o))

\* C5: a finished search or batch answers 200 whichever of its calls have
\* failed; a failing call contributes no tee times, and the tee times of
\* every other call are in the response as that call alone determined them
\* (filtered, for search).
C5_PartialFailureIsolation ==
    /\ \A r \in DoneOf("search") : \A i \in TasksOf(r) :
          /\ SearchResponse(r).status = 200
          /\ Failing(i) => /\ tasks[i].out = Returned(<<>>)
                           /\ tasks[i].course \notin CoursesIn(SearchResponse(r))
          /\ ~Failing(i) => /\ Unaffected(i)
                            /\ Filtered(r, i) # <<>> =>
                                 Filtered(r, i) \in EntriesOf(SearchResponse(r), tasks[i].course)
    /\ \A r \in DoneOf("batch") : \A i \in TasksOf(r) :
          /\ BatchResponse(r).status = 200
          /\ Failing(i) => /\ tasks[i].out = Returned(<<>>)
                           /\ <<>> \in EntriesOf(BatchResponse(r), tasks[i].course)
          /\ ~Failing(i) => /\ Unaffected(i)
                            /\ tasks[i].out.val \in EntriesOf(BatchResponse(r), tasks[i].course)

\* A finished search in which one call failed upstream and another call's
\* tee times are returned.
C5_Witness ==
    \E r \in DoneOf("search") : \E i, j \in TasksOf(r) :
        /\ tasks[i].failed /\ tasks[i].fetched
        /\ ~Failing(j) /\ tasks[j].fetched /\ Filtered(r, j) # <<>>
        /\ Filtered(r, j) \in EntriesOf(SearchResponse(r), tasks[j].course)

\* A finished batch in which one call failed upstream and another call's
\* tee times are returned.
C5_WitnessBatch ==
    \E r \in DoneOf("batch") : \E i, j \in TasksOf(r) :
        /\ tasks[i].failed /\ tasks[i].fetched
        /\ ~Failing(j) /\ tasks[j].fetched /\ tasks[j].out.val # <<>>
        /\ tasks[j].out.val \in EntriesOf(BatchResponse(r), tasks[j].course)

FanOutRequests == { r \in DOMAIN reqs : reqs[r].kind \in {"search", "batch"} }

\* C6: while a fetch of a search or batch is in flight, every other call of
\* the request has been made, and each one that has not returned yet can
\* take its next step: none waits for the fetch.
C6_SlowFetchDelaysNoOther ==
    \A r \in FanOutRequests : \A j \in TasksOf(r) : \A i \in TasksOf(r) \ {j} :
        tasks[j].pc = "fetch" =>
            /\ tasks[i].pc # "wait"
            /\ tasks[i].pc = "got" => ENABLED Continue(i)
            /\ tasks[i].pc = "fetch" => ENABLED FetchDone(i)

\* A call of a search or batch has fetched, written the cache and returned
\* while the fetch of a call made before it is still in flight.
C6_Witness ==
    \E r \in FanOutRequests : \E j \in TasksOf(r) : \E i \in TasksOf(r) :
        /\ j < i
        /\ tasks[j].pc = "fetch"
        /\ tasks[i].pc = "done" /\ tasks[i].fetched /\ tasks[i].wrote /\ ~tasks[i].failed
        /\ cache[CacheKey(UTAH_COURSES[tasks[i].course], tasks[i].date)].val = tasks[i].out.val

(***************************************************************************)
(* Caching.                                                                *)
(***************************************************************************)
KeyOf(i) == CacheKey(UTAH_COURSES[tasks[i].course], tasks[i].date)

\* No refresh of the key of call i has been requested.
NoRefreshOf(i) ==
    \A r \in DOMAIN reqs :
        reqs[r].kind = "refresh" =>
            \/ FindCourse(reqs[r].courseId) = 0
            \/ CacheKey(UTAH_COURSES[FindCourse(reqs[r].courseId)], reqs[r].date) # KeyOf(i)

\* C1 as stated: while less than 900 s have passed since the first request
\* and no refresh of the key has been requested, a call made after another
\* call for the same course and date has returned performs no upstream fetch
\* and returns the same tee times (as serialised), whatever the outcome of
\* the first call was.
C1_SecondIdenticalNoFetch ==
    now < TTL =>
        \A j \in DOMAIN tasks : \A i \in tasks[j].seen :
            (tasks[j].pc = "done" /\ NoRefreshOf(j)) =>
                /\ ~tasks[j].fetched
                /\ tasks[j].out.val = JSONRoundTrip(tasks[i].out.val)

\* C1, amended: a call made while its key holds an entry written less than
\* 900 s before and not deleted since performs no upstream fetch and
\* returns the tee times, as serialised, of the call that wrote the entry.
C1_LiveEntryIsReturned ==
    \A j \in DOMAIN tasks :
        (tasks[j].pc = "done" /\ tasks[j].live) =>
            /\ tasks[j].hit
            /\ ~tasks[j].fetched
            /\ \E i \in tasks[j].seen :
                  /\ tasks[i].wrote
                  /\ tasks[i].fid = tasks[j].fid
                  /\ tasks[j].out.val = JSONRoundTrip(tasks[i].out.val)

\* A call of a later request has returned, from the cache, the tee times
\* that a call of an earlier request fetched.
C1_Witness ==
    \E j \in DOMAIN tasks : \E i \in tasks[j].seen :
        /\ tasks[j].pc = "done" /\ tasks[j].live /\ tasks[j].hit
        /\ tasks[i].req < tasks[j].req
        /\ tasks[i].wrote /\ tasks[i].fid = tasks[j].fid
        /\ tasks[j].out.val # <<>>

\* C2: the call of a finished refresh has returned nothing it read from the
\* cache, and what it fetched, it fetched after the refresh request arrived.
C2_RefreshReturnsFreshData ==
    \A r \in DoneOf("refresh") : \A i \in TasksOf(r) :
        /\ ~tasks[i].hit
        /\ tasks[i].fetched => tasks[i].fid > reqs[r].since

\* C10: a call whose fetch or parse failed, or that found no browser, has
\* returned [] and has written nothing to the cache.
C10_FailuresNeverCached ==
    \A i \in DOMAIN tasks :
        Failing(i) => tasks[i].out = Returned(<<>>) /\ ~tasks[i].wrote

\* The call i found no browser to render the page with.
NoRenderer(i) == System(i) = "golfnow" /\ ~browser

\* C11: every cache entry expires 900 s after it was written, and a call
\* made once the entry of its key has expired reads null, returns nothing
\* from the cache and goes to the upstream (or finds no browser to go with).
C11_ExpiredEntryIsMiss ==
    /\ \A k \in Keys : cache[k].set => cache[k].exp = cache[k].at + 900
    /\ \A j \in DOMAIN tasks :
          tasks[j].expired =>
              /\ ~tasks[j].read.set
              /\ ~tasks[j].hit
              /\ tasks[j].pc = "done" => tasks[j].fetched \/ NoRenderer(j)

\* A call made 900 s after the entry of its key was written has fetched
\* upstream and returned.
C11_Witness ==
    \E j \in DOMAIN tasks :
        /\ tasks[j].expired /\ tasks[j].pc = "done" /\ tasks[j].fetched
        /\ \E i \in tasks[j].seen : tasks[i].wrote /\ tasks[i].out.val # <<>>

(***************************************************************************)
(* Status codes.                                                           *)
(***************************************************************************)
\* The status of the response to the finished request r: the single-course
\* routes answer 404 for an unknown id and 500 from the handler's catch
\* block when scrapeTeeTimes throws.
Status(r) ==
    CASE reqs[r].kind = "search" -> SearchResponse(r).status
      [] reqs[r].kind = "batch" -> BatchResponse(r).status
      [] OTHER ->
            IF FindCourse(reqs[r].courseId) = 0 THEN 404
            ELSE IF \E i \in TasksOf(r) : tasks[i].out.threw THEN 500
            ELSE 200

\* teeTimes in the response of a single-course route.
TeeTimesOf(r) == tasks[CHOOSE i \in TasksOf(r) : TRUE].out.val

Finished == { r \in DOMAIN reqs : RequestDone(r) }

\* C13: a finished request never answers 5xx, and answers 200 when it made
\* a call; a call whose upstream fetch or parse failed shows in the response
\* as a course without tee times (for search, as a course left out).
C13_UpstreamFailureNot5xx ==
    \A r \in Finished :
        /\ Status(r) < 500
        /\ TasksOf(r) # {} => Status(r) = 200
        /\ \A i \in TasksOf(r) :
              tasks[i].failed =>
                  CASE reqs[r].kind = "search" ->
                          tasks[i].course \notin CoursesIn(SearchResponse(r))
                    [] reqs[r].kind = "batch" ->
                          <<>> \in EntriesOf(BatchResponse(r), tasks[i].course)
                    [] OTHER -> TeeTimesOf(r) = <<>>

\* A tee-times request and a refresh have both answered 200 without tee
\* times after their upstream fetches failed.
C13_Witness ==
    \E r, q \in Finished : \E i \in TasksOf(r) : \E j \in TasksOf(q) :
        /\ reqs[r].kind = "teetimes" /\ reqs[q].kind = "refresh"
        /\ tasks[i].failed /\ tasks[i].fetched /\ Status(r) = 200 /\ TeeTimesOf(r) = <<>>
        /\ tasks[j].failed /\ tasks[j].fetched /\ Status(q) = 200 /\ TeeTimesOf(q) = <<>>

(***************************************************************************)
(* SpecValidate: one request through the tee-times route                   *)
(* (GET /api/tee-times/:courseId, GET /api/courses/:courseId/teetimes).    *)
(***************************************************************************)
\* Everything outside the specification at hand is at rest.
Quiet ==
    /\ phase = "boot"
    /\ browser = FALSE
    /\ cache = <<>>
    /\ now = 0
    /\ reqs = <<>>
    /\ tasks = <<>>
    /\ fetchSeq = <<>>
    /\ norm = NormIdle
    /\ filt = FiltIdle
    /\ disp = DispIdle

\* A date as a request carries it: absent, an ISO date, or another string.
DateInputs == {"absent", "2025-07-01", "not-a-date"}

\* isISO8601()
IsISO8601(d) == d = "2025-07-01"

\* body('date').optional().isISO8601(): the validator reads req.body.date;
\* an absent field passes.
ValidationErrors(queryDate, bodyDate) ==
    IF bodyDate = "absent" \/ IsISO8601(bodyDate) THEN {} ELSE {"date"}

\* req.query.date || new Date().toISOString().split('T')[0]
DateOf(queryDate) == IF queryDate = "absent" THEN "today" ELSE queryDate

\* The request has arrived; nothing has been scraped for it.
HttpInit ==
    /\ variant \in Variants
    /\ Quiet
    /\ pool = PoolIdle
    /\ sched = SchedIdle
    /\ scrape = ScrapeIdle
    /\ \E courseId \in CourseIds \cup {"nowhere"} :
       \E queryDate \in DateInputs : \E bodyDate \in DateInputs :
          http = [stage |-> "received", courseId |-> courseId, queryDate |-> queryDate,
                  bodyDate |-> bodyDate, status |-> 0, scraped |-> "none"]

\* validationResult(req): 400 when the validator reported an error.
HttpValidate ==
    /\ http.stage = "received"
    /\ http' = IF ValidationErrors(http.queryDate, http.bodyDate) # {}
               THEN [http EXCEPT !.stage = "responded", !.status = 400]
               ELSE [http EXCEPT !.stage = "validated"]
    /\ UNCHANGED <<serverVars, norm, filt, disp, pool, sched, scrape>>

\* UTAH_COURSES.find: 404 for an unknown id; otherwise scrapeTeeTimes(course,
\* date) is called, which reads the cache under that date.
HttpLookup ==
    /\ http.stage = "validated"
    /\ http' = IF FindCourse(http.courseId) = 0
               THEN [http EXCEPT !.stage = "responded", !.status = 404]
               ELSE [http EXCEPT !.stage = "scraping", !.scraped = DateOf(http.queryDate)]
    /\ UNCHANGED <<serverVars, norm, filt, disp, pool, sched, scrape>>

\* scrapeTeeTimes has returned (it never throws): res.json(...), status 200.
HttpRespond ==
    /\ http.stage = "scraping"
    /\ http' = [http EXCEPT !.stage = "responded", !.status = 200]
    /\ UNCHANGED <<serverVars, norm, filt, disp, pool, sched, scrape>>

ValidateNext == HttpValidate \/ HttpLookup \/ HttpRespond

SpecValidate == HttpInit /\ [][ValidateNext]_vars

\* C14: a tee-times request whose date query parameter is given and is not
\* an ISO date is answered 400 and makes no scrapeTeeTimes call (so no cache
\* read, fetch or cache write); one with an acceptable date and an unknown
\* course id is answered 404.
C14_InvalidDateIs400 ==
    /\ (http.queryDate # "absent" /\ ~IsISO8601(http.queryDate)) =>
          /\ http.scraped = "none"
          /\ http.stage = "responded" => http.status = 400
    /\ ( /\ http.stage = "responded"
         /\ http.queryDate = "absent" \/ IsISO8601(http.queryDate)
         /\ http.bodyDate = "absent"
         /\ FindCourse(http.courseId) = 0 ) => http.status = 404

\* C15: the courses in the response of a finished search are in the order
\* of UTAH_COURSES, the list the search maps over.
C15_SearchKeepsOrder ==
    \A r \in DoneOf("search") :
        LET results == SearchResponse(r).results
        IN  \A k, l \in DOMAIN results :
                k < l => results[k].value.course < results[l].value.course

\* A finished search returns two courses, the second of which had its call
\* return while the call for the first was still running.
C15_Witness ==
    \E r \in DoneOf("search") : \E i, j \in TasksOf(r) :
        /\ i < j /\ tasks[j].overtook /\ ~tasks[i].overtook
        /\ tasks[i].fetched /\ tasks[j].fetched
        /\ {tasks[i].course, tasks[j].course} \subseteq CoursesIn(SearchResponse(r))

(***************************************************************************)
(* SpecFanOut: the upstream fetches that search / batch requests and cron  *)
(* runs have in flight, over a registry of the size of UTAH_COURSES.  The  *)
(* cache is abstracted: any of the calls an operation makes may miss.      *)
(***************************************************************************)
\* UTAH_COURSES.length
RegistrySize == 5

PoolCourses == 1..RegistrySize

\* Operations (requests and cron runs) in one behaviour.
MaxOps == 2

\* The scrapeTeeTimes calls a cron run makes, step by step: one call at a
\* time in src/server.js, both dates of a course at once in part_001.
CronWork(v) ==
    IF v = "server"
    THEN [k \in 1..(2 * RegistrySize) |->
            {<<(k + 1) \div 2, IF k % 2 = 1 THEN "today" ELSE "tomorrow">>}]
    ELSE [k \in 1..RegistrySize |-> {<<k, "today">>, <<k, "tomorrow">>}]

PoolInit ==
    /\ variant \in Variants
    /\ Quiet
    /\ http = HttpIdle
    /\ sched = SchedIdle
    /\ scrape = ScrapeIdle
    /\ pool = [stage |-> "serving", ops |-> <<>>]

\* GET /api/search/tee-times: Promise.all calls scrapeTeeTimes for every
\* course at once; each call that misses the cache starts its fetch.
PoolSearch ==
    /\ variant = "server"
    /\ Len(pool.ops) < MaxOps
    /\ \E misses \in SUBSET PoolCourses :
          pool' = [pool EXCEPT !.ops = Append(@,
                      [kind |-> "search", pos |-> 0,
                       flying |-> { <<c, "today">> : c \in misses }])]
    /\ UNCHANGED <<serverVars, norm, filt, disp, http, sched, scrape>>

\* POST /api/courses/batch-teetimes: Promise.allSettled does the same for
\* every requested course.
PoolBatch ==
    /\ variant = "part_001"
    /\ Len(pool.ops) < MaxOps
    /\ \E asked \in SUBSET PoolCourses : \E misses \in SUBSET asked :
          pool' = [pool EXCEPT !.ops = Append(@,
                      [kind |-> "batch", pos |-> 0,
                       flying |-> { <<c, "today">> : c \in misses }])]
    /\ UNCHANGED <<serverVars, norm, filt, disp, http, sched, scrape>>

\* cron.schedule fires: a run starts, whatever else is going on.
PoolCronFire ==
    /\ Len(pool.ops) < MaxOps
    /\ pool' = [pool EXCEPT !.ops = Append(@, [kind |-> "cron", pos |-> 0, flying |-> {}])]
    /\ UNCHANGED <<serverVars, norm, filt, disp, http, sched, scrape>>

\* A cron run whose awaited calls have returned makes its next call(s).
PoolCronStep(o) ==
    /\ pool.ops[o].kind = "cron"
    /\ pool.ops[o].flying = {}
    /\ pool.ops[o].pos < Len(CronWork(variant))
    /\ \E misses \in SUBSET CronWork(variant)[pool.ops[o].pos + 1] :
          pool' = [pool EXCEPT !.ops[o].pos = @ + 1, !.ops[o].flying = misses]
    /\ UNCHANGED <<serverVars, norm, filt, disp, http, sched, scrape>>

\* One upstream fetch ends (with a result, an error or its timeout).
PoolFetchEnds(o) ==
    /\ \E f \in pool.ops[o].flying :
          pool' = [pool EXCEPT !.ops[o].flying = @ \ {f}]
    /\ UNCHANGED <<serverVars, norm, filt, disp, http, sched, scrape>>

FanOutNext ==
    \/ PoolSearch
    \/ PoolBatch
    \/ PoolCronFire
    \/ \E o \in DOMAIN pool.ops : PoolCronStep(o)
    \/ \E o \in DOMAIN pool.ops : PoolFetchEnds(o)

SpecFanOut == PoolInit /\ [][FanOutNext]_vars

\* The upstream fetches in flight.
InFlight ==
    Cardinality({ x \in (DOMAIN pool.ops) \X (PoolCourses \X Dates) :
                    x[2] \in pool.ops[x[1]].flying })

\* C16: the upstream fetches in flight for search, batch and cron
\* operations are never more than five.
C16_FetchCap == InFlight <= 5

\* The pages of the shared browser that are open.
OpenPages == { i \in DOMAIN tasks : tasks[i].page = "open" }

\* C17: a call that has returned has closed the page it opened, so no page
\* is open once every call has returned.
C17_PagesClosed ==
    \A i \in DOMAIN tasks : tasks[i].pc = "done" => i \notin OpenPages

(***************************************************************************)
(* Spec: a refresh races the resolves of the same key.  Redis outlives the *)
(* server process, so a server that starts listening may find the entry    *)
(* that an earlier fetch has stored with setex.                            *)
(***************************************************************************)
\* The entry under the key of course ci for "today", as the scraper of the
\* course stores it after a fetch that returned a list.
StoredEarlier(ci) ==
    LET course == UTAH_COURSES[ci]
        sys == course.bookingSystem
    IN  RedisSetex([k \in Keys |-> NoEntry], CacheKey(course, "today"), TTL,
                   ParseBody("server", sys, OutcomeBody(sys, "list")).val, 0, 0)

RaceInit ==
    /\ variant = "server"
    /\ phase = "listening"
    /\ browser \in BOOLEAN
    /\ \E ci \in DOMAIN UTAH_COURSES : cache = StoredEarlier(ci)
    /\ now = 0
    /\ reqs = <<>>
    /\ tasks = <<>>
    /\ fetchSeq = [k \in Keys |-> 0]
    /\ norm = NormIdle
    /\ filt = FiltIdle
    /\ disp = DispIdle
    /\ http = HttpIdle
    /\ pool = PoolIdle
    /\ sched = SchedIdle
    /\ scrape = ScrapeIdle

RaceNext ==
    \/ Tick
    \/ GetTeeTimes
    \/ Refresh
    \/ \E i \in DOMAIN tasks : Call(i)
    \/ \E i \in DOMAIN tasks : Continue(i)
    \/ \E i \in DOMAIN tasks : FetchDone(i)

SpecRace == RaceInit /\ [][RaceNext]_vars

\* The call j is a resolve that races the refresh call i: it was made after
\* redis.del of the refresh was sent (every call but a refresh's is made on
\* the arrival of its request, and j's request arrived later) and before the
\* refresh call returned, and no call that had returned by then has stored
\* an entry under the key.
Races(i, j) ==
    /\ reqs[tasks[i].req].kind = "refresh"
    /\ reqs[tasks[j].req].kind # "refresh"
    /\ i < j
    /\ KeyOf(i) = KeyOf(j)
    /\ tasks[j].pc # "wait"
    /\ i \notin tasks[j].seen
    /\ \A k \in tasks[j].seen : ~tasks[k].wrote

\* C18: a resolve made between the delete and the set of a refresh of the
\* same key finds no entry and, once it has returned, has fetched by itself
\* (GolfNow without a browser returns [] instead); neither call throws and
\* neither request is answered with an error status.
C18_ResolveDuringRefreshMisses ==
    \A i \in DOMAIN tasks : \A j \in DOMAIN tasks :
        Races(i, j) =>
            /\ ~IsHit(tasks[j].read)
            /\ tasks[j].pc = "done" =>
                  /\ ~tasks[j].hit
                  /\ tasks[j].fetched \/ NoRenderer(j)
                  /\ ~tasks[j].out.threw
            /\ tasks[i].pc = "done" => ~tasks[i].out.threw
            /\ \A r \in {tasks[i].req, tasks[j].req} : r \in Finished => Status(r) = 200

\* A refresh found a stored entry and deleted it; a resolve of the same key
\* was made before the refresh had fetched, and both have fetched and
\* returned.
C18_Witness ==
    \E i \in DOMAIN tasks : \E j \in DOMAIN tasks :
        /\ Races(i, j)
        /\ \E ci \in DOMAIN UTAH_COURSES :
              KeyOf(i) = CacheKey(UTAH_COURSES[ci], "today")
        /\ tasks[j].pc = "done" /\ tasks[j].fetched
        /\ tasks[i].pc = "done" /\ tasks[i].fetched
        /\ tasks[i].fid > tasks[j].fid

(***************************************************************************)
(* Spec: the scheduler.  cron.schedule registers an async callback; every  *)
(* firing of the trigger calls it anew.  A calendar day is an integer, the *)
(* date of "today" is the day on which new Date() is evaluated and the     *)
(* date of "tomorrow" the day after.  scrapeTeeTimes catches its own       *)
(* failures and returns [], so no call rejects into the callback's catch.  *)
(***************************************************************************)
MaxRuns == 2

MaxMidnights == 1

\* The two scrapeTeeTimes calls for course c with "today" computed on day d.
BothDates(c, d) == {<<c, d>>, <<c, d + 1>>}

\* The callback reaches course c on day d.  server.js has computed today
\* before the loop and awaits the call for today first; part_001 computes
\* today inside the loop and makes both calls under Promise.all.
StartCourse(v, run, c, d) ==
    IF c > RegistrySize
    THEN [run EXCEPT !.pos = c, !.pc = "ended"]
    ELSE IF v = "server"
    THEN [run EXCEPT !.pos = c, !.pc = "today",
                     !.asked = @ \cup {<<c, run.today>>}]
    ELSE [run EXCEPT !.pos = c, !.pc = "both", !.today = d,
                     !.asked = @ \cup BothDates(c, d)]

SchedInit ==
    /\ variant \in Variants
    /\ Quiet
    /\ http = HttpIdle
    /\ pool = PoolIdle
    /\ sched = [stage |-> "on", day |-> 0, runs |-> <<>>]
    /\ scrape = ScrapeIdle

\* The trigger fires: the callback runs up to its first pending call.
\* Nothing records that an earlier run is still in flight.  The trigger of
\* server.js ('0 6 * * *') fires once a day, that of part_001
\* ('*/15 * * * *') every quarter of an hour.
CronFire ==
    /\ sched.stage \in {"on", "closing"}
    /\ Len(sched.runs) < MaxRuns
    /\ variant = "server" =>
          \A r \in DOMAIN sched.runs : sched.runs[r].trigger < sched.day
    /\ sched' = [sched EXCEPT !.runs = Append(@,
                    StartCourse(variant,
                                [trigger |-> sched.day, today |-> sched.day, pos |-> 0,
                                 pc |-> "fired", asked |-> {}, logged |-> FALSE],
                                1, sched.day))]
    /\ UNCHANGED <<serverVars, norm, filt, disp, http, pool, scrape>>

\* The call or calls that run r awaits return, some of them with [] after
\* a failure that the scraper has caught and logged.
CronStep(r) ==
    /\ sched.stage \in {"on", "closing"}
    /\ sched.runs[r].pc \in {"today", "tomorrow", "both"}
    /\ LET run == sched.runs[r]
           awaited == CASE run.pc = "today" -> {<<run.pos, run.today>>}
                        [] run.pc = "tomorrow" -> {<<run.pos, run.today + 1>>}
                        [] run.pc = "both" -> BothDates(run.pos, run.today)
       IN  \E failed \in SUBSET awaited :
              LET back == [run EXCEPT !.logged = @ \/ failed # {}]
              IN  sched' = [sched EXCEPT !.runs[r] =
                      IF run.pc = "today"
                      THEN [back EXCEPT !.pc = "tomorrow",
                                        !.asked = @ \cup {<<run.pos, run.today + 1>>}]
                      ELSE StartCourse(variant, back, run.pos + 1, sched.day)]
    /\ UNCHANGED <<serverVars, norm, filt, disp, http, pool, scrape>>

\* The calendar day changes.
Midnight ==
    /\ sched.stage \in {"on", "closing"}
    /\ sched.day < MaxMidnights
    /\ sched' = [sched EXCEPT !.day = @ + 1]
    /\ UNCHANGED <<serverVars, norm, filt, disp, http, pool, scrape>>

\* process.on('SIGTERM'): the handler sends browser.close() (when a browser
\* is set) and then redis.disconnect(), awaiting each; the event loop keeps
\* serving cron firings and returning calls meanwhile.
Sigterm ==
    /\ sched.stage = "on"
    /\ sched' = [sched EXCEPT !.stage = "closing"]
    /\ UNCHANGED <<serverVars, norm, filt, disp, http, pool, scrape>>

\* redis.disconnect() has returned: process.exit(0).
Exit0 ==
    /\ sched.stage = "closing"
    /\ sched' = [sched EXCEPT !.stage = "exit0"]
    /\ UNCHANGED <<serverVars, norm, filt, disp, http, pool, scrape>>

SchedNext ==
    \/ CronFire
    \/ \E r \in DOMAIN sched.runs : CronStep(r)
    \/ Midnight
    \/ Sigterm
    \/ Exit0

SpecSched == SchedInit /\ [][SchedNext]_vars

\* The scheduler runs that have not ended.
RunsInFlight == { r \in DOMAIN sched.runs : sched.runs[r].pc # "ended" }

\* C19: at most one scheduler run is in flight at any time.
C19_OneRunInFlight == Cardinality(RunsInFlight) <= 1

\* C20: a scheduler run that has ended has called scrapeTeeTimes for every
\* course of the registry with the date of the day it was triggered on and
\* with the date of the day after, and with no other date.
C20_RunCoversTriggerDates ==
    \A r \in DOMAIN sched.runs :
        sched.runs[r].pc = "ended" =>
            sched.runs[r].asked =
                PoolCourses \X {sched.runs[r].trigger, sched.runs[r].trigger + 1}

\* C21: the server listens only after both the Redis connection and the
\* launch of the browser have succeeded; a failure of either ends startup.
C21_ListensOnlyFullyStarted == phase = "listening" => browser

\* C22: once the shutdown handler has begun to close the browser and the
\* Redis connection, and when the process exits with code 0, no scheduler
\* run is in flight, so none of its calls is awaiting a fetch or Redis.
C22_ShutdownDrains ==
    sched.stage \in {"closing", "exit0"} => RunsInFlight = {}

(***************************************************************************)
(* Spec: one scrapeTeeTimes call of a GolfNow, ForeUp or Chronogolf        *)
(* scraper.  redis.get and redis.setex may reject (connection closed, an   *)
(* error reply); both are awaited inside the scraper's try block.  The     *)
(* course's bookingUrl is drawn from a few paths, and the two regular      *)
(* expressions are tabulated over them.                                    *)
(***************************************************************************)
BookingUrls ==
    {"booking/20287/5495", "booking/20287", "course/meadowbrook-golf-course",
     "tee-times/facility/19765-river-oaks-golf-course/search"}

\* course.bookingUrl.match(/booking\/(\d+)\/(\d+)/)
MatchForeUp(url) == url = "booking/20287/5495"

\* course.bookingUrl.match(/course\/([^/?]+)/)?.[1]
MatchChronogolf(url) == url = "course/meadowbrook-golf-course"

\* A scraper that takes every bookingUrl for a match.
LocatorAnyUrl(sys, url) == TRUE

\* if (!match) return [] / if (!courseSlug) return []; GolfNowScraper
\* appends the date to the bookingUrl and matches nothing.
LocatorMatches(sys, url) ==
    CASE sys = "foreup" -> MatchForeUp(url)
      [] sys = "chronogolf" -> MatchChronogolf(url)
      [] OTHER -> TRUE

\* What redis.get resolves to: the entry a fetch of a list has stored
\* earlier, or null.
CachedData(v, sys, stored) ==
    IF stored
    THEN [set |-> TRUE,
          val |-> JSONRoundTrip(ParseBody(v, sys, OutcomeBody(sys, "list")).val)]
    ELSE [set |-> FALSE, val |-> <<>>]

ScrapeInit ==
    /\ variant \in Variants
    /\ Quiet
    /\ http = HttpIdle
    /\ pool = PoolIdle
    /\ sched = SchedIdle
    /\ \E sys \in KnownSystems : \E url \in BookingUrls :
       \E launched \in BOOLEAN : \E stored \in BOOLEAN :
          scrape = [stage |-> "get", sys |-> sys, url |-> url, launched |-> launched,
                    stored |-> stored, getFailed |-> FALSE, setFailed |-> FALSE,
                    hit |-> FALSE, fetched |-> FALSE, wrote |-> FALSE,
                    parsed |-> Returned(<<>>), out |-> Returned(<<>>)]

\* redis.get rejects (catch block), or resolves: a hit returns the parsed
\* entry; on a miss GolfNowScraper needs the browser (server.js returns []
\* without one, part_001 throws on browser.newPage() into its catch block)
\* and the direct-API scrapers need a matching bookingUrl.
ScrapeGet ==
    /\ scrape.stage = "get"
    /\ \E up \in BOOLEAN :
          LET cachedData == CachedData(variant, scrape.sys, scrape.stored)
          IN  scrape' =
                IF ~up
                THEN [scrape EXCEPT !.stage = "returned", !.getFailed = TRUE, !.out = Catch]
                ELSE IF IsHit(cachedData)
                THEN [scrape EXCEPT !.stage = "returned", !.hit = TRUE,
                                    !.out = Returned(cachedData.val)]
                ELSE IF scrape.sys = "golfnow" /\ ~scrape.launched
                THEN [scrape EXCEPT !.stage = "returned",
                                    !.out = IF variant = "server" THEN Returned(<<>>)
                                            ELSE Catch]
                ELSE IF ~LocatorMatches(scrape.sys, scrape.url)
                THEN [scrape EXCEPT !.stage = "returned", !.out = Returned(<<>>)]
                ELSE [scrape EXCEPT !.stage = "fetch", !.fetched = TRUE]
    /\ UNCHANGED <<serverVars, norm, filt, disp, http, pool, sched>>

\* The upstream request ends: a rejection or a body that cannot be parsed
\* lands in the catch block; otherwise redis.setex is sent.
ScrapeFetch ==
    /\ scrape.stage = "fetch"
    /\ \E o \in Outcomes(scrape.sys) :
          LET parsed == IF o = "error" THEN Threw
                        ELSE ParseBody(variant, scrape.sys, OutcomeBody(scrape.sys, o))
          IN  scrape' =
                IF parsed.threw
                THEN [scrape EXCEPT !.stage = "returned", !.parsed = parsed, !.out = Catch]
                ELSE [scrape EXCEPT !.stage = "setex", !.parsed = parsed]
    /\ UNCHANGED <<serverVars, norm, filt, disp, http, pool, sched>>

\* redis.setex resolves and the list is returned, or it rejects into the
\* catch block.
ScrapeSetex ==
    /\ scrape.stage = "setex"
    /\ \E up \in BOOLEAN :
          scrape' =
            IF up
            THEN [scrape EXCEPT !.stage = "returned", !.wrote = TRUE,
                                !.out = scrape.parsed]
            ELSE [scrape EXCEPT !.stage = "returned", !.setFailed = TRUE, !.out = Catch]
    /\ UNCHANGED <<serverVars, norm, filt, disp, http, pool, sched>>

ScrapeNext ==
    \/ ScrapeGet
    \/ ScrapeFetch
    \/ ScrapeSetex

SpecScrape == ScrapeInit /\ [][ScrapeNext]_vars

\* The call can fetch: GolfNow has its browser, a direct-API course a
\* bookingUrl of the expected shape.
CanFetch ==
    /\ scrape.sys = "golfnow" => scrape.launched
    /\ scrape.sys = "foreup" => MatchForeUp(scrape.url)
    /\ scrape.sys = "chronogolf" => MatchChronogolf(scrape.url)

\* C23: a call during which redis.get or redis.setex failed has still
\* fetched from upstream, and returns what the fetch has yielded.
C23_CacheDownBypasses ==
    ( /\ scrape.stage = "returned"
      /\ scrape.getFailed \/ scrape.setFailed
      /\ CanFetch )
    => /\ scrape.fetched
       /\ ~scrape.parsed.threw => scrape.out = scrape.parsed

\* The course is a direct-API one whose bookingUrl its scraper does not
\* match, and redis.get has found no entry.
MismatchOnMiss ==
    /\ scrape.sys \in {"foreup", "chronogolf"}
    /\ ~CanFetch
    /\ ~scrape.stored
    /\ ~scrape.getFailed

FirstPresent(v, sys, r, field) ==
    LET cands == Candidates(v, sys, field)
        present == { k \in DOMAIN cands : r[cands[k]] \notin {Undef, Null} }
    IN  IF present = {} THEN 0
        ELSE CHOOSE k \in present : \A m \in present : k <= m

\* C25: in the slot a direct-API scraper makes of a record, price,
\* availableSlots and holes are read from the first candidate source field
\* that is present and not null, a present 0 included.
C25_FirstPresentWins ==
    ( /\ NormParsedOne
      /\ norm.sys \in {"foreup", "chronogolf"}
      /\ ~norm.out.threw
      /\ Len(norm.out.val) = 1 )
    => LET r == norm.body.recs[1]
       IN  \A field \in {"price", "availableSlots", "holes"} :
              LET k == FirstPresent(variant, norm.sys, r, field)
                  from == r[Candidates(variant, norm.sys, field)[k]]
              IN  k # 0 =>
                     norm.out.val[1][field] =
                        IF field = "price" THEN parseFloat(from) ELSE parseInt(from)

\* C26: a setex never replaces an unexpired entry with the result of a
\* fetch that started before the fetch whose result the entry holds (fid
\* numbers the fetches of a key in the order in which they started).
C26_CacheNeverRegresses ==
    [][\A k \in DOMAIN cache :
          (cache[k].set /\ cache'[k].set /\ now < cache[k].exp)
              => cache'[k].fid >= cache[k].fid]_vars
=============================================================================
